---- MODULE Spec2Model ----
(***************************************************************************)
(* BertTrainer (src/bert/trainer.py): the epoch loop of __call__, the      *)
(* batch loop of train with its progress and accuracy cadences, and the    *)
(* checkpoint files written by save_checkpoint and read by                 *)
(* load_checkpoint.                                                        *)
(*                                                                         *)
(* Encodings.  Tensors are abstract: the model's parameters and the        *)
(* optimizer's state are values of the small sets Weights and OptStates,   *)
(* and optimizer.step() replaces each by a different value.  The two       *)
(* losses of a batch are a pair drawn from LossPairs.  A float rounded to  *)
(* two decimals (percentage) is the integer number of hundredths.  The     *)
(* wall clock counts half seconds, so that the rounding of the timestamp   *)
(* to whole seconds in the checkpoint's name is a real conversion.  An     *)
(* exception that propagates out of the trainer ends the behaviour in      *)
(* pc = "raised".                                                          *)
(***************************************************************************)
EXTENDS Integers, Sequences, FiniteSets, TLC

\* ------------------------------------------------------------------ bounds
MaxDsLen == 4
MaxBatchSize == 2
MaxPrintEvery == 2
MaxAccuracyEvery == 2
MaxEpochs == 3
MaxClock == 2
\* calls made on one trainer: __call__, save_checkpoint, load_checkpoint
MaxOps == 3

Weights == {"w0", "w1"}
OptStates == {"o0", "o1"}
\* <<loss_nsp, loss_token>> of one batch
LossPairs == {<<1, 2>>, <<2, 1>>}
\* the step and loss arguments of a direct save_checkpoint call
StepArgs == {-1}
LossArgs == {3}

\* a local that holds no value yet; a bound one is the one-element <<v>>
Unbound == <<>>
NoName == <<>>

VARIABLES
    \* configuration, set by __init__
    ds_len, batch_size, print_every, accuracy_every, epochs, checkpoint_dir,
    \* the trainer's state
    current_epoch, model, optimizer,
    \* the environment: checkpoint files by name, the wall clock
    files, clock,
    \* control: where the trainer is, the iterator of __call__'s range, and
    \* the number of calls made on the trainer so far
    pc, range_next, ops,
    \* locals of the running train call
    epoch, index, average_nsp_loss, average_mlm_loss, loss,
    \* what the trainer has emitted: progress lines of the running train
    \* call, metrics of the running __call__
    lines, writer,
    \* history.  batch_losses: the losses of the batches of the running
    \* train call.  calls: the train and save_checkpoint calls of the running
    \* __call__, run_start: the epoch it was entered with.  origin: how
    \* current_epoch was last set outside __call__ (by __init__, by
    \* load_checkpoint, with the epoch stored in the file and whether
    \* __call__ wrote it, or by a __call__ that trained), run_origin: origin
    \* as the running __call__ found it.  saved: what the first save event
    \* of each file name stored.  train_count: the train calls per epoch (2
    \* stands for two or more).  run_written: the names whose file __call__
    \* wrote last.  last_op: the last operation.
    batch_losses, calls, run_start, origin, run_origin, saved, train_count,
    run_written, last_op

vars == <<ds_len, batch_size, print_every, accuracy_every, epochs, checkpoint_dir,
          current_epoch, model, optimizer, files, clock, pc, range_next, ops,
          epoch, index, average_nsp_loss, average_mlm_loss, loss,
          lines, writer, batch_losses, calls, run_start, origin, run_origin,
          saved, train_count, run_written, last_op>>

config == <<ds_len, batch_size, print_every, accuracy_every, epochs, checkpoint_dir>>
train_locals == <<epoch, index, average_nsp_loss, average_mlm_loss, loss,
                  lines, batch_losses>>

\* ------------------------------------------------------------- functions

\* n / d rounded to the nearest integer, ties to the even one (Python's round
\* and format of a float), for n >= 0 and d > 0
RoundHalfEven(n, d) ==
    LET q == n \div d
        r == n % d
    IN  IF 2 * r < d THEN q
        ELSE IF 2 * r > d THEN q + 1
        ELSE IF q % 2 = 0 THEN q ELSE q + 1

\* percentage raises ZeroDivisionError when max_len // batch_size is 0
percentage_raises(bs, max_len) == max_len \div bs = 0

\* round(current / batched_max * 100, 2), in hundredths
percentage(bs, max_len, current) ==
    LET batched_max == max_len \div bs
    IN  RoundHalfEven(current * 10000, batched_max)

\* len(self.loader): DataLoader keeps the final partial batch
loader_len == (ds_len + batch_size - 1) \div batch_size

\* f"{datetime.utcnow().timestamp():.0f}" at wall clock t (half seconds)
timestamp(t) == RoundHalfEven(t, 2)

\* f"bert_epoch{epoch}_step{step}_{timestamp:.0f}.pt"
checkpoint_name(e, step, t) == <<e, step, timestamp(t)>>

\* range(self.current_epoch, self.epochs) starts at self.current_epoch
range_start_next == current_epoch + 1
range_start == current_epoch

\* range(self.current_epoch, self.epochs) has a next value, r
range_has_next_inclusive(r) == r <= epochs
range_has_next(r) == r < epochs

\* index % self._print_every == 0
progress_due_zero_based(i) == (i - 1) % print_every = 0
progress_due(i) == i % print_every = 0

\* index % self._accuracy_every == 0, tested inside the progress branch
accuracy_due_always(i) == TRUE
accuracy_due(i) == i % accuracy_every = 0

\* global_step = epoch * len(self.loader) + index
global_step_batched_len(e, i) == e * (ds_len \div batch_size) + i
global_step(e, i) == e * loader_len + i

\* average_nsp_loss = 0 and average_mlm_loss = 0 after a progress line
reset_kept(acc) == acc
reset(acc) == 0

\* self.current_epoch = checkpoint['epoch']
checkpoint_epoch_next(checkpoint) == checkpoint.epoch + 1
checkpoint_epoch(checkpoint) == checkpoint.epoch

Origin(how, e, by_run) == [how |-> how, epoch |-> e, by_run |-> by_run]

Op(op, name, fresh) == [op |-> op, name |-> name, fresh |-> fresh]

\* --------------------------------------------------------------- __init__
InitCommon ==
    /\ current_epoch = 0
    /\ model = "w0"
    /\ optimizer = "o0"
    /\ clock = 0
    /\ pc = "idle"
    /\ range_next = 0
    /\ ops = 0
    /\ epoch = 0
    /\ index = 0
    /\ average_nsp_loss = 0
    /\ average_mlm_loss = 0
    /\ loss = Unbound
    /\ lines = <<>>
    /\ writer = <<>>
    /\ batch_losses = <<>>
    /\ calls = <<>>
    /\ run_start = 0
    /\ origin = Origin("init", 0, FALSE)
    /\ run_origin = Origin("init", 0, FALSE)
    /\ saved = <<>>
    /\ train_count = [e \in 0..MaxEpochs |-> 0]
    /\ run_written = {}
    /\ last_op = Op("init", NoName, FALSE)

\* The checkpoint life cycle: a trainer over a one-item dataset, with or
\* without a checkpoint directory, which is empty at the start.
Init ==
    /\ ds_len = 1
    /\ batch_size = 1
    /\ print_every = 1
    /\ accuracy_every = 1
    /\ epochs \in 0..MaxEpochs
    /\ checkpoint_dir \in BOOLEAN
    /\ files = <<>>
    /\ InitCommon

\* checkpoints an earlier process left, one per epoch, for load_checkpoint
Preexisting ==
    [name \in {checkpoint_name(k, -1, 0) : k \in 0..MaxEpochs} |->
        [epoch |-> name[1], model_state_dict |-> "w1",
         optimizer_state_dict |-> "o1", loss |-> 3]]

\* The batch loop: every dataset length, batch size and cadence, no
\* checkpoint directory, resuming from the checkpoints of an earlier process.
InitTrain ==
    /\ ds_len \in 0..MaxDsLen
    /\ batch_size \in 1..MaxBatchSize
    /\ print_every \in 1..MaxPrintEvery
    /\ accuracy_every \in 1..MaxAccuracyEvery
    /\ epochs \in 0..MaxEpochs
    /\ checkpoint_dir = FALSE
    /\ files = Preexisting
    /\ InitCommon

\* --------------------------------------------------------------- __call__
RunBegin ==
    /\ pc = "idle"
    /\ ops < MaxOps
    /\ ops' = ops + 1
    /\ pc' = "for"
    /\ range_next' = range_start
    /\ run_start' = current_epoch
    /\ run_origin' = origin
    /\ calls' = <<>>
    /\ writer' = <<>>
    /\ last_op' = Op("run", NoName, FALSE)
    /\ UNCHANGED <<config, current_epoch, model, optimizer, files, clock,
                   train_locals, origin, saved, train_count, run_written>>

\* the for statement binds self.current_epoch and calls train
RunIter ==
    /\ pc = "for"
    /\ range_has_next(range_next)
    /\ current_epoch' = range_next
    /\ range_next' = range_next + 1
    /\ pc' = "train"
    /\ epoch' = range_next
    /\ index' = 0
    /\ average_nsp_loss' = 0
    /\ average_mlm_loss' = 0
    /\ loss' = Unbound
    /\ lines' = <<>>
    /\ batch_losses' = <<>>
    /\ calls' = Append(calls, <<"train", range_next>>)
    /\ train_count' = [train_count EXCEPT ![range_next] = IF @ < 2 THEN @ + 1 ELSE 2]
    /\ last_op' = Op("train", NoName, FALSE)
    /\ UNCHANGED <<config, model, optimizer, files, clock, ops, writer, run_start,
                   origin, run_origin, saved, run_written>>

RunReturn ==
    /\ pc = "for"
    /\ ~range_has_next(range_next)
    /\ pc' = "idle"
    /\ origin' = IF calls # <<>> THEN Origin("run", 0, FALSE) ELSE origin
    /\ last_op' = Op("return", NoName, FALSE)
    /\ range_next' = 0
    /\ writer' = <<>>
    /\ calls' = <<>>
    /\ run_start' = 0
    /\ run_origin' = Origin("init", 0, FALSE)
    /\ UNCHANGED <<config, current_epoch, model, optimizer, files, clock, ops,
                   train_locals, saved, train_count, run_written>>

\* ------------------------------------------------------------------ train
\* one iteration of the loop over self.loader
TrainBatch ==
    /\ pc = "train"
    /\ index < loader_len
    /\ \E lp \in LossPairs, m \in Weights \ {model}, o \in OptStates \ {optimizer} :
        LET i == index + 1
            loss_nsp == lp[1]
            loss_token == lp[2]
            nsp_sum == average_nsp_loss + loss_nsp
            mlm_sum == average_mlm_loss + loss_token
            gs == global_step(epoch, i)
            acc == accuracy_due(i)
            line == [index |-> i,
                     passed |-> percentage(batch_size, ds_len, i),
                     global_step |-> gs,
                     print_nsp_loss |-> <<nsp_sum, print_every>>,
                     print_mlm_loss |-> <<mlm_sum, print_every>>,
                     accuracy |-> acc]
            accuracy_scalars ==
                IF acc THEN << <<"NSP train accuracy", gs>>,
                               <<"Token train accuracy", gs>> >>
                ELSE <<>>
            loss_scalars == << <<"NSP loss", gs>>, <<"MLM loss", gs>> >>
        IN  /\ index' = i
            /\ loss' = <<loss_token + loss_nsp>>
            /\ model' = m
            /\ optimizer' = o
            /\ batch_losses' = Append(batch_losses, lp)
            /\ IF ~progress_due(i)
               THEN /\ average_nsp_loss' = nsp_sum
                    /\ average_mlm_loss' = mlm_sum
                    /\ pc' = "train"
                    /\ last_op' = Op("batch", NoName, FALSE)
                    /\ UNCHANGED <<lines, writer>>
               ELSE IF percentage_raises(batch_size, ds_len)
               THEN /\ average_nsp_loss' = nsp_sum
                    /\ average_mlm_loss' = mlm_sum
                    /\ pc' = "raised"
                    /\ last_op' = Op("ZeroDivisionError", NoName, FALSE)
                    /\ UNCHANGED <<lines, writer>>
               ELSE /\ lines' = Append(lines, line)
                    /\ writer' = writer \o accuracy_scalars \o loss_scalars
                    /\ average_nsp_loss' = reset(nsp_sum)
                    /\ average_mlm_loss' = reset(mlm_sum)
                    /\ pc' = "train"
                    /\ last_op' = Op("line", NoName, FALSE)
    /\ UNCHANGED <<config, current_epoch, files, clock, range_next, ops, epoch, calls,
                   run_start, origin, run_origin, saved, train_count, run_written>>

\* return loss: unbound when the loader yielded no batch; the other locals
\* and the window on the call's output end with the call
TrainReturn ==
    /\ pc = "train"
    /\ index >= loader_len
    /\ IF loss = Unbound
       THEN /\ pc' = "raised"
            /\ last_op' = Op("UnboundLocalError", NoName, FALSE)
       ELSE /\ pc' = "save"
            /\ last_op' = Op("trained", NoName, FALSE)
    /\ epoch' = 0
    /\ index' = 0
    /\ average_nsp_loss' = 0
    /\ average_mlm_loss' = 0
    /\ lines' = <<>>
    /\ batch_losses' = <<>>
    /\ UNCHANGED <<config, current_epoch, model, optimizer, files, clock, range_next,
                   ops, loss, writer, calls, run_start, origin, run_origin,
                   saved, train_count, run_written>>

\* -------------------------------------------------------- save_checkpoint
\* the body of save_checkpoint(e, step, l), called by who ("run" or "user")
save_checkpoint(e, step, l, who) ==
    IF ~checkpoint_dir
    THEN /\ last_op' = Op("save_skipped", NoName, FALSE)
         /\ UNCHANGED <<files, saved, run_written>>
    ELSE LET name == checkpoint_name(e, step, clock)
             checkpoint == [epoch |-> e,
                            model_state_dict |-> model,
                            optimizer_state_dict |-> optimizer,
                            loss |-> l]
         IN  /\ files' = (name :> checkpoint) @@ files
             /\ saved' = saved @@ (name :> [epoch |-> e, model |-> model,
                                             optimizer |-> optimizer])
             /\ run_written' = IF who = "run" THEN run_written \cup {name}
                                              ELSE run_written \ {name}
             /\ last_op' = Op("save", name, name \notin DOMAIN files)

\* self.save_checkpoint(self.current_epoch, step=-1, loss=loss) in __call__
RunSave ==
    /\ pc = "save"
    /\ save_checkpoint(current_epoch, -1, loss[1], "run")
    /\ calls' = Append(calls, <<"save", current_epoch>>)
    /\ pc' = "for"
    /\ loss' = Unbound
    /\ UNCHANGED <<config, current_epoch, model, optimizer, clock, range_next, ops,
                   epoch, index, average_nsp_loss, average_mlm_loss, lines,
                   batch_losses, writer, run_start, origin, run_origin, train_count>>

\* save_checkpoint called on the idle trainer
SaveCheckpoint ==
    /\ pc = "idle"
    /\ ops < MaxOps
    /\ ops' = ops + 1
    /\ \E e \in 0..MaxEpochs, step \in StepArgs, l \in LossArgs :
           save_checkpoint(e, step, l, "user")
    /\ UNCHANGED <<config, current_epoch, model, optimizer, clock, pc, range_next,
                   train_locals, writer, calls, run_start, origin, run_origin,
                   train_count>>

\* -------------------------------------------------------- load_checkpoint
LoadCheckpoint ==
    /\ pc = "idle"
    /\ ops < MaxOps
    /\ ops' = ops + 1
    /\ \E path \in DOMAIN files :
        LET checkpoint == files[path]
        IN  /\ current_epoch' = checkpoint_epoch(checkpoint)
            /\ model' = checkpoint.model_state_dict
            /\ optimizer' = checkpoint.optimizer_state_dict
            /\ last_op' = Op("load", path, FALSE)
            /\ origin' = Origin("load", checkpoint.epoch, path \in run_written)
    /\ UNCHANGED <<config, files, clock, pc, range_next, train_locals, writer, calls,
                   run_start, run_origin, saved, train_count, run_written>>

\* ------------------------------------------------------------ environment
\* half a second passes.  Only save_checkpoint reads the clock, so time is
\* let pass where a save can follow: on the idle trainer and between the
\* return of train and the save of __call__
Tick ==
    /\ clock < MaxClock
    /\ pc \in {"idle", "save"}
    /\ clock' = clock + 1
    /\ UNCHANGED <<config, current_epoch, model, optimizer, files, pc, range_next, ops,
                   train_locals, writer, calls, run_start, origin, run_origin,
                   saved, train_count, run_written, last_op>>

Next ==
    \/ RunBegin
    \/ RunIter
    \/ TrainBatch
    \/ TrainReturn
    \/ RunSave
    \/ RunReturn
    \/ SaveCheckpoint
    \/ LoadCheckpoint
    \/ Tick

Spec == Init /\ [][Next]_vars

NextTrain ==
    \/ RunBegin
    \/ RunIter
    \/ TrainBatch
    \/ TrainReturn
    \/ RunSave
    \/ RunReturn
    \/ LoadCheckpoint

SpecTrain == InitTrain /\ [][NextTrain]_vars

\* ------------------------------------------------------------ properties

IsPrefix(s, t) == Len(s) <= Len(t) /\ \A j \in 1..Len(s) : s[j] = t[j]

Max(a, b) == IF a >= b THEN a ELSE b

\* train(c), save(c), train(c + 1), save(c + 1), ..., train(E - 1), save(E - 1)
ExpectedCalls(c, E) ==
    [j \in 1..(2 * Max(E - c, 0)) |->
        IF j % 2 = 1 THEN <<"train", c + (j - 1) \div 2>>
                     ELSE <<"save", c + (j - 2) \div 2>>]

RunActive == pc \in {"for", "train", "save"}

\* __call__ has left its loop and is about to return
RunFinished == pc = "for" /\ range_next >= epochs

\* C1: a __call__ entered with current_epoch = c calls train(e), then
\* save_checkpoint(e, ...) once train(e) has returned, for e = c, ..., E - 1
\* in ascending order and once each: the calls made so far are always a
\* prefix of that list, a save is only made after the train call of the same
\* epoch returned, and at the return the list is complete (empty when c >= E).
C1_TrainThenSavePerEpoch ==
    /\ RunActive => IsPrefix(calls, ExpectedCalls(run_start, epochs))
    /\ pc = "train" => calls[Len(calls)] = <<"train", epoch>>
    /\ pc = "save" => calls[Len(calls)] = <<"train", current_epoch>>
    /\ pc = "for" => Len(calls) % 2 = 0
    /\ RunFinished => calls = ExpectedCalls(run_start, epochs)

C1_Witness ==
    /\ RunFinished
    /\ checkpoint_dir
    /\ run_start = 1
    /\ epochs = 3
    /\ calls = << <<"train", 1>>, <<"save", 1>>, <<"train", 2>>, <<"save", 2>> >>

\* C2: right after load_checkpoint of a file whose stored epoch is k,
\* current_epoch = k; the __call__ that follows calls train(k) first, and
\* does call it when k < epochs; when the file was written by __call__, that
\* train(k) is at least the second one of epoch k on this trainer.
C2_ResumeRetrainsStoredEpoch ==
    /\ last_op.op = "load" => current_epoch = files[last_op.name].epoch
    /\ (RunActive /\ run_origin.how = "load") =>
          /\ run_start = run_origin.epoch
          /\ calls # <<>> => calls[1] = <<"train", run_origin.epoch>>
          /\ (RunFinished /\ run_origin.epoch < epochs) => calls # <<>>
          /\ run_origin.by_run =>
                /\ run_origin.epoch < epochs
                /\ calls # <<>> => train_count[run_origin.epoch] = 2

C2_Witness ==
    /\ pc = "train"
    /\ run_origin.how = "load"
    /\ run_origin.by_run
    /\ calls = << <<"train", run_origin.epoch>> >>
    /\ train_count[run_origin.epoch] = 2

\* C3: load_checkpoint of a file restores current_epoch, the model and the
\* optimizer to what the save_checkpoint call that first wrote that file
\* stored.
C3_RoundTrip ==
    (last_op.op = "load" /\ last_op.name \in DOMAIN saved) =>
        /\ current_epoch = saved[last_op.name].epoch
        /\ model = saved[last_op.name].model
        /\ optimizer = saved[last_op.name].optimizer

\* C5: every save_checkpoint that writes, writes a file whose name no file
\* in the directory has yet.
C5_NeverOverwritten == last_op.op = "save" => last_op.fresh

\* C10: during __call__, current_epoch never decreases (it is the epoch of
\* the last call, and the calls' epochs ascend) and at every train and
\* save_checkpoint call start <= current_epoch < epochs; a __call__ that
\* trained returns with current_epoch = epochs - 1, so that a second __call__
\* trains and saves epoch epochs - 1 again; a __call__ entered with
\* current_epoch >= epochs leaves current_epoch unchanged.
C10_CurrentEpochInRun ==
    /\ RunActive =>
          /\ run_start <= current_epoch
          /\ \A i, j \in 1..Len(calls) : i <= j => calls[i][2] <= calls[j][2]
          /\ current_epoch = IF calls = <<>> THEN run_start ELSE calls[Len(calls)][2]
    /\ pc \in {"train", "save"} => current_epoch < epochs
    /\ (RunFinished /\ calls # <<>>) => current_epoch = epochs - 1
    /\ (last_op.op = "return" /\ origin.how = "run") => current_epoch = epochs - 1
    /\ (RunActive /\ run_start >= epochs) => (calls = <<>> /\ current_epoch = run_start)
    /\ (RunActive /\ run_origin.how = "run") =>
          /\ run_start = epochs - 1
          /\ calls # <<>> => train_count[epochs - 1] = 2
          /\ RunFinished => calls = << <<"train", epochs - 1>>, <<"save", epochs - 1>> >>

C10_Witness ==
    /\ RunFinished
    /\ run_origin.how = "run"
    /\ epochs = 2
    /\ checkpoint_dir
    /\ current_epoch = 1
    /\ calls = << <<"train", 1>>, <<"save", 1>> >>

\* ------------------------------------------------- properties of train

\* a train call is running, or has just ended in the ZeroDivisionError of
\* a progress tick
RaisedAtTick == pc = "raised" /\ last_op.op = "ZeroDivisionError"
InTrainCall == pc = "train" \/ RaisedAtTick

\* the epochs whose train call has returned in the running __call__
CompletedEpochs ==
    IF calls = <<>> THEN {}
    ELSE IF InTrainCall THEN run_start..(current_epoch - 1)
    ELSE run_start..current_epoch

\* the global steps of the batches seen so far in the running __call__
\* whose 1-based index satisfies Due
StepsSoFar(Due(_)) ==
    {e * loader_len + i : e \in CompletedEpochs, i \in {k \in 1..loader_len : Due(k)}}
    \cup (IF InTrainCall
          THEN {epoch * loader_len + i : i \in {k \in 1..index : Due(k)}}
          ELSE {})

\* the global steps written to the metrics sink under a tag
StepsWritten(tag) == {writer[k][2] : k \in {n \in 1..Len(writer) : writer[n][1] = tag}}

MultipleOfProgress(i) == i % print_every = 0
MultipleOfBoth(i) == i % print_every = 0 /\ i % accuracy_every = 0

\* the progress lines so far are those of the multiples of print_every up
\* to the current batch, each with global step epoch * B + index
LinesAtMultiples ==
    /\ Len(lines) = index \div print_every
    /\ \A j \in 1..Len(lines) :
          /\ lines[j].index = j * print_every
          /\ lines[j].global_step = epoch * loader_len + j * print_every

AccumulatorsZeroAfterLine ==
    last_op.op = "line" => (average_nsp_loss = 0 /\ average_mlm_loss = 0)

\* C4 as stated: in every train call over B batches with print_every = P >= 1,
\* also one that ends in an exception, floor(B / P) lines are emitted, at the
\* multiples of P, with global step epoch * B + i, the accumulators being zero
\* after each.
C4_ProgressLinesAnyLoader ==
    /\ InTrainCall => LinesAtMultiples
    /\ AccumulatorsZeroAfterLine

\* C4, amended: when the dataset holds at least batch_size items (and both
\* cadences are >= 1) train never raises, and at every batch the lines
\* emitted so far are exactly those of the multiples of P up to the current
\* index (so floor(B / P) at the end), the line at index i with global step
\* epoch * B + i, and both accumulators are zero right after each line.
C4_ProgressLines ==
    ds_len >= batch_size =>
        /\ pc # "raised"
        /\ pc = "train" => LinesAtMultiples
        /\ AccumulatorsZeroAfterLine

C4_Witness ==
    /\ ds_len >= batch_size
    /\ pc = "train"
    /\ loader_len = 4
    /\ index = 4
    /\ print_every = 2
    /\ epoch = 1
    /\ Len(lines) = 2
    /\ lines[1].global_step = 6
    /\ lines[2].global_step = 8

\* C6: when ds_len >= batch_size >= 1, every progress line reports a
\* percentage between 0 and 100 (0 and 10000 hundredths).
C6_PercentageScale ==
    ds_len >= batch_size =>
        \A j \in 1..Len(lines) : 0 <= lines[j].passed /\ lines[j].passed <= 10000

\* C7: over one __call__, the global steps written to the metrics sink never
\* decrease in emission order and strictly increase within each series (the
\* two or four scalars of one tick share a step), and the steps written are
\* exactly epoch * B + i for the batches i of the progress cadence seen so
\* far, B being the number of batches the loader yields.
C7_GlobalStepIncreasing ==
    /\ \A i, j \in 1..Len(writer) :
          i < j => /\ writer[i][2] <= writer[j][2]
                   /\ writer[i][1] = writer[j][1] => writer[i][2] < writer[j][2]
    /\ RunActive =>
          /\ StepsWritten("NSP loss") = StepsSoFar(MultipleOfProgress)
          /\ StepsWritten("MLM loss") = StepsSoFar(MultipleOfProgress)

C7_Witness ==
    /\ pc = "train"
    /\ ds_len % batch_size # 0
    /\ run_start > 0
    /\ current_epoch > run_start
    /\ index = loader_len
    /\ Len(lines) >= 2

RECURSIVE SumLoss(_, _, _, _)
\* the sum of component k of the loss pairs from..to of seq
SumLoss(seq, k, from, to) ==
    IF from > to THEN 0 ELSE seq[from][k] + SumLoss(seq, k, from + 1, to)

\* the index of the tick before line j, 0 for the first line of the epoch
PreviousTick(j) == IF j = 1 THEN 0 ELSE lines[j - 1].index

\* C8: every progress line reports, for each of the two losses, the sum over
\* exactly the print_every batches since the previous tick (since the start
\* of the epoch for the first) divided by print_every, and the accumulators
\* hold the sums over the batches since the last tick of this epoch only.
C8_WindowedLossAverages ==
    pc = "train" =>
        /\ Len(batch_losses) = index
        /\ \A j \in 1..Len(lines) :
              /\ lines[j].index - PreviousTick(j) = print_every
              /\ lines[j].print_nsp_loss =
                    <<SumLoss(batch_losses, 1, PreviousTick(j) + 1, lines[j].index),
                      print_every>>
              /\ lines[j].print_mlm_loss =
                    <<SumLoss(batch_losses, 2, PreviousTick(j) + 1, lines[j].index),
                      print_every>>
        /\ LET last == IF lines = <<>> THEN 0 ELSE lines[Len(lines)].index
           IN  /\ average_nsp_loss = SumLoss(batch_losses, 1, last + 1, index)
               /\ average_mlm_loss = SumLoss(batch_losses, 2, last + 1, index)

C8_Witness ==
    /\ pc = "train"
    /\ current_epoch > run_start
    /\ print_every = 2
    /\ Len(lines) = 1
    /\ index = 3
    /\ lines[1].print_nsp_loss = <<3, 2>>
    /\ average_nsp_loss = 2

AccuracyAtMultiplesOfBoth ==
    /\ StepsWritten("NSP train accuracy") = StepsSoFar(MultipleOfBoth)
    /\ StepsWritten("Token train accuracy") = StepsSoFar(MultipleOfBoth)
    /\ StepsWritten("NSP train accuracy") \subseteq StepsWritten("NSP loss")
    /\ \A j \in 1..Len(lines) : lines[j].accuracy <=> MultipleOfBoth(lines[j].index)

\* C9 as stated: for any cadences, in every train call, the accuracy values
\* have been written for exactly the batches whose index is a multiple of
\* both cadences.
C9_AccuracyAnyCadence == (RunActive \/ RaisedAtTick) => AccuracyAtMultiplesOfBoth

\* C9, amended: when the dataset holds at least batch_size items (and both
\* cadences are >= 1), the accuracy values are written at batch index i
\* exactly when i is a multiple of both cadences, hence only at batches that
\* emit a progress line.
C9_AccuracyCadence ==
    ds_len >= batch_size =>
        /\ pc # "raised"
        /\ RunActive => AccuracyAtMultiplesOfBoth

C9_Witness ==
    /\ ds_len >= batch_size
    /\ pc = "train"
    /\ print_every = 1
    /\ accuracy_every = 2
    /\ Len(lines) >= 2
    /\ ~lines[1].accuracy
    /\ lines[2].accuracy

====
